---- MODULE Spec2Model ----
(***************************************************************************)
(* Hash router of the site (src/src/router.ts), its entry point            *)
(* (src/src/main.ts) and the page factories it mounts, as a state machine. *)
(* Strings the code slices (location.hash, href attributes, route keys)    *)
(* are sequences of one-character strings, so that slice(1) is a real      *)
(* operation on them.                                                      *)
(***************************************************************************)
EXTENDS Integers, Sequences, FiniteSets, TLC

\* ---------------------------------------------------------------- bounds
MaxNav == 2        \* fragment changes made by the user in one run
MaxMouse == 2      \* mouseenter / mouseleave events delivered in one run
MaxProps == 2      \* entries of a property bag passed to h
MaxChildren == 3   \* children passed to h
MaxOps == 3        \* calls, flushes and cancels of a debounced or throttled function
MaxTime == 6       \* milliseconds the clock advances in one run
MaxRetries == 3    \* largest retries argument of retry
MaxTasks == 3      \* largest number of tasks given to asyncParallel
MaxItems == 3      \* largest number of items given to a carousel
MaxTicks == 6      \* autoplay ticks of one carousel in one run

\* ------------------------------------------------------- JavaScript values
\* null (an absent attribute, an absent fragment) among the strings; no string
\* of characters equals it, its only element not being a character
Null == <<"null">>
\* undefined among the values a property lookup yields
Undefined == "undefined"

\* route keys and other fragments, as character sequences
P_root == <<"/">>
P_about == <<"/", "a", "b", "o", "u", "t", "-", "u", "s">>
P_contact == <<"/", "c", "o", "n", "t", "a", "c", "t">>
P_news == <<"/", "n", "e", "w", "s">>
P_gallery == <<"/", "g", "a", "l", "l", "e", "r", "y">>
P_unknown == <<"/", "u", "n", "k", "n", "o", "w", "n">>
P_bareNews == <<"n", "e", "w", "s">>
P_constructor == <<"c", "o", "n", "s", "t", "r", "u", "c", "t", "o", "r">>
P_toString == <<"t", "o", "S", "t", "r", "i", "n", "g">>
P_proto == <<"_", "_", "p", "r", "o", "t", "o", "_", "_">>

\* String.prototype.slice(1): the string without its first character
Slice1(s) == IF Len(s) <= 1 THEN <<>> ELSE SubSeq(s, 2, Len(s))

\* s?.slice(1) || '/': null gives undefined, undefined and '' are falsy
SliceOrRoot(s) == IF s = Null \/ Slice1(s) = <<>> THEN <<"/">> ELSE Slice1(s)

\* ------------------------------------------------------------ route table
\* const routes = { '/': HomePage, ... }
routes ==
  (P_root :> "HomePage") @@ (P_about :> "AboutPage") @@ (P_contact :> "ContactPage")
    @@ (P_news :> "NewsPage") @@ (P_gallery :> "GalleryPage")

\* the page factories: functions returning one root element
PageFactories ==
  {"HomePage", "AboutPage", "ContactPage", "NewsPage", "GalleryPage", "NotFoundPage"}

\* What an object literal inherits from Object.prototype: 'constructor' is the
\* function Object (returns a plain object), 'toString' a function returning a
\* string, '__proto__' the prototype object itself (not callable).
ObjectPrototype ==
  (P_constructor :> "Object") @@ (P_toString :> "Object.prototype.toString")
    @@ (P_proto :> "Object.prototype")

\* routes[path]: own property first, then the prototype chain, else undefined
RoutesLookup(path) ==
  IF path \in DOMAIN routes THEN routes[path]
  ELSE IF path \in DOMAIN ObjectPrototype THEN ObjectPrototype[path]
  ELSE Undefined

\* window.location.hash: '' when the URL has no fragment or an empty one,
\* otherwise '#' followed by the fragment
LocationHash(frag) == IF frag = Null \/ frag = <<>> THEN <<>> ELSE <<"#">> \o frag


\* the slice forgotten: the hash itself is taken as the path
PathFromHashNoSlice(hash) == IF hash = <<>> THEN <<"/">> ELSE hash

\* const path = window.location.hash.slice(1) || '/'
PathFromHash(hash) == SliceOrRoot(hash)

\* const linkPath = link.getAttribute('href')?.slice(1) || '/'
LinkPath(href) == SliceOrRoot(href)

\* --------------------------------------------------------- navigation links
ActiveClasses == {"text-foreground", "border-b-2", "border-base-900"}
HoverClasses == {"hover:border-b-2", "hover:border-base-600"}

\* href attributes of the document's '.nav-link' anchors (index.html)
H_root == <<"#", "/">>
H_news == <<"#", "/", "n", "e", "w", "s">>
H_hashOnly == <<"#">>
H_absNews == <<"/", "#", "/", "n", "e", "w", "s">>
H_absRoot == <<"/", "#", "/">>

NavLinkHref ==
  (1 :> H_root) @@ (2 :> H_news) @@ (3 :> H_hashOnly) @@ (4 :> Null)
    @@ (5 :> H_absNews) @@ (6 :> H_absRoot)

NavLinks == DOMAIN NavLinkHref

\* class lists the anchors can carry when the document is loaded
InitialNavClasses ==
  { [l \in NavLinks |-> {"nav-link"} \cup HoverClasses],
    [l \in NavLinks |-> IF l = 1 THEN {"nav-link"} \cup ActiveClasses
                        ELSE {"nav-link"} \cup HoverClasses] }

\* the body of the forEach in updateNavLinks, for one link
UpdateLinkClasses(classes, href, currentPath) ==
  IF LinkPath(href) = currentPath
    THEN (classes \cup ActiveClasses) \ HoverClasses
    ELSE (classes \ ActiveClasses) \cup HoverClasses

\* updateNavLinks(currentPath) on the document d: every '.nav-link' anchor
updateNavLinks(d, currentPath) ==
  [d EXCEPT !.nav = [l \in NavLinks |->
                       UpdateLinkClasses(d.nav[l], NavLinkHref[l], currentPath)]]

\* ------------------------------------------------------------------ carousel
\* HomePage passes three images to the carousel
CarouselItems == 3

\* the index kept at the last slide where it is to wrap
goToSlideOfClamp(n, index) ==
  IF index < 0 THEN 0
  ELSE IF index >= n THEN n - 1
  ELSE index

\* the index goToSlide(index) settles on for n items: wraps at both ends
goToSlideOf(n, index) ==
  IF index < 0 THEN n - 1
  ELSE IF index >= n THEN 0
  ELSE index

\* goToSlide(index) of the carousel of the home page
goToSlide(index) == goToSlideOf(CarouselItems, index)

\* stopAutoplay of carousel c: clearInterval of the id it holds, if any; the
\* variable keeps the id
stopAutoplay(d, c) ==
  IF d.carousels[c].autoplayInterval # 0
    THEN [d EXCEPT !.timers = {t \in @ : t.id # d.carousels[c].autoplayInterval}]
    ELSE d

\* startAutoplay of carousel c: stopAutoplay, then a new interval
startAutoplay(d, c) ==
  LET d1 == stopAutoplay(d, c) IN
  [d1 EXCEPT !.timers = @ \cup {[id |-> d1.nextTimer, owner |-> c]},
             !.carousels[c].autoplayInterval = d1.nextTimer,
             !.nextTimer = @ + 1]

\* Carousel(props) with a non-empty items list, rendered inside the page root c
Carousel(d, c) ==
  startAutoplay(
    [d EXCEPT !.carousels = @ @@ (c :> [autoplayInterval |-> 0, currentIndex |-> 0,
                                         counter |-> <<1, CarouselItems>>])],
    c)

\* the interval callback nextSlide of carousel c
nextSlide(d, c) ==
  LET i == goToSlide(d.carousels[c].currentIndex + 1) IN
  [d EXCEPT !.carousels[c].currentIndex = i,
            !.carousels[c].counter = <<i + 1, CarouselItems>>]


\* ------------------------------------------------------------ page factories
NoNode == [id |-> 0, page |-> "none"]

\* PageComponent(): what calling the looked-up value does.  A page factory
\* returns a new root element (HomePage also renders a Carousel, which starts
\* its autoplay interval); Object and Object.prototype.toString return a value
\* that is not a Node; Object.prototype is not callable (TypeError).
Invoke(comp, d) ==
  IF comp \in PageFactories
    THEN LET node == [id |-> d.nextNode, page |-> comp]
             d1 == [d EXCEPT !.nextNode = @ + 1, !.factoryCalls = @ + 1]
         IN [threw |-> FALSE, isNode |-> TRUE, node |-> node,
             doc |-> IF comp = "HomePage" THEN Carousel(d1, node.id) ELSE d1]
  ELSE IF comp = "Object.prototype"
    THEN [threw |-> TRUE, isNode |-> FALSE, node |-> NoNode, doc |-> d]
  ELSE [threw |-> FALSE, isNode |-> FALSE, node |-> NoNode, doc |-> d]

\* ------------------------------------------------------------------- router
\* appRoot.appendChild(node)
AppendChild(d, node) == [d EXCEPT !.children = Append(@, node)]

\* getById('app-root')
getById(d) == IF d.root THEN "app-root" ELSE Undefined

\* routes[path] || NotFoundPage
PageComponentFor(path) ==
  IF RoutesLookup(path) = Undefined THEN "NotFoundPage" ELSE RoutesLookup(path)

\* the container not emptied before the append
ClearInnerHTMLKeep(d) == d

\* emptying the container also cancelling the intervals of the page it held
ClearInnerHTMLDisposes(d) == [d EXCEPT !.children = <<>>, !.timers = {}]

\* appRoot.innerHTML = ''
ClearInnerHTML(d) == [d EXCEPT !.children = <<>>]

\* the exception caught and the fallback page shown in place of the failed one
PropagateFallback(d) ==
  [AppendChild(d, [id |-> d.nextNode, page |-> "NotFoundPage"])
     EXCEPT !.nextNode = @ + 1, !.outcome = "threw"]

\* an exception leaves handleRouteChange: nothing catches it, the rest of the
\* handler does not run
Propagate(d) == [d EXCEPT !.outcome = "threw"]

\* the links updated before the early return
AbortNoRootUpdatesNav(d) ==
  [updateNavLinks(d, <<"/">>) EXCEPT !.errors = @ + 1, !.outcome = "noroot"]

\* the early return of handleRouteChange when #app-root is missing
AbortNoRoot(d) == [d EXCEPT !.errors = @ + 1, !.outcome = "noroot"]

\* handleRouteChange calling the page factory before it empties the container
handleRouteChangeInvokeFirst(d0, hash) ==
  LET d == [d0 EXCEPT !.made = NoNode] IN
  IF getById(d) = Undefined THEN AbortNoRoot(d)
  ELSE
    LET path == PathFromHash(hash)
        PageComponent == PageComponentFor(path)
        r == Invoke(PageComponent, d)
    IN IF r.threw \/ ~r.isNode
         THEN Propagate(r.doc)
         ELSE [updateNavLinks(AppendChild(ClearInnerHTML(r.doc), r.node), path)
                 EXCEPT !.outcome = "mounted", !.made = r.node]

\* handleRouteChange, run to completion on the document d with location.hash
handleRouteChange(d0, hash) ==
  LET d == [d0 EXCEPT !.made = NoNode] IN
  IF getById(d) = Undefined THEN AbortNoRoot(d)
  ELSE
    LET path == PathFromHash(hash)
        PageComponent == PageComponentFor(path)
        r == Invoke(PageComponent, ClearInnerHTML(d))
    IN IF r.threw \/ ~r.isNode
         THEN Propagate(r.doc)
         ELSE [updateNavLinks(AppendChild(r.doc, r.node), path)
                 EXCEPT !.outcome = "mounted", !.made = r.node]


\* ======================================================= element builder h
\* JavaScript values h receives: t is the result of typeof (with null, array,
\* element and text told apart), b a boolean, s a string, n a number or the
\* identity of a function, object or element, items the items of an array
Val(t, b, s, n, items) == [t |-> t, b |-> b, s |-> s, n |-> n, items |-> items]
Fn(i) == Val("function", FALSE, <<>>, i, <<>>)
Bool(b) == Val("boolean", b, <<>>, 0, <<>>)
Str(s) == Val("string", FALSE, s, 0, <<>>)
Num(n) == Val("number", FALSE, <<>>, n, <<>>)
Obj(i) == Val("object", FALSE, <<>>, i, <<>>)
Arr(items) == Val("array", FALSE, <<>>, 0, items)
Elem(i) == Val("element", FALSE, <<>>, i, <<>>)
Text(s) == Val("text", FALSE, s, 0, <<>>)
NullV == Val("null", FALSE, <<>>, 0, <<>>)
UndefV == Val("undefined", FALSE, <<>>, 0, <<>>)

\* property names
K_ref == <<"r", "e", "f">>
K_className == <<"c", "l", "a", "s", "s", "N", "a", "m", "e">>
K_class == <<"c", "l", "a", "s", "s">>
K_style == <<"s", "t", "y", "l", "e">>
K_children == <<"c", "h", "i", "l", "d", "r", "e", "n">>
K_onClick == <<"o", "n", "C", "l", "i", "c", "k">>
K_onMouseEnter == <<"o", "n", "M", "o", "u", "s", "e", "E", "n", "t", "e", "r">>
K_on == <<"o", "n">>
K_disabled == <<"d", "i", "s", "a", "b", "l", "e", "d">>
K_id == <<"i", "d">>

\* String.prototype.toLowerCase, character by character
ToLowerChar(c) ==
  CASE c = "A" -> "a" [] c = "B" -> "b" [] c = "C" -> "c" [] c = "D" -> "d"
    [] c = "E" -> "e" [] c = "F" -> "f" [] c = "G" -> "g" [] c = "H" -> "h"
    [] c = "I" -> "i" [] c = "J" -> "j" [] c = "K" -> "k" [] c = "L" -> "l"
    [] c = "M" -> "m" [] c = "N" -> "n" [] c = "O" -> "o" [] c = "P" -> "p"
    [] c = "Q" -> "q" [] c = "R" -> "r" [] c = "S" -> "s" [] c = "T" -> "t"
    [] c = "U" -> "u" [] c = "V" -> "v" [] c = "W" -> "w" [] c = "X" -> "x"
    [] c = "Y" -> "y" [] c = "Z" -> "z" [] OTHER -> c

ToLowerCase(s) == [i \in 1..Len(s) |-> ToLowerChar(s[i])]

\* key.startsWith('on')
StartsWithOn(key) == Len(key) >= 2 /\ key[1] = "o" /\ key[2] = "n"

\* key.substring(2)
Substring2(key) == IF Len(key) <= 2 THEN <<>> ELSE SubSeq(key, 3, Len(key))

\* decimal digits of a natural number
DigitChar(d) ==
  CASE d = 0 -> "0" [] d = 1 -> "1" [] d = 2 -> "2" [] d = 3 -> "3" [] d = 4 -> "4"
    [] d = 5 -> "5" [] d = 6 -> "6" [] d = 7 -> "7" [] d = 8 -> "8" [] OTHER -> "9"

RECURSIVE Digits(_)
Digits(n) == IF n < 10 THEN <<DigitChar(n)>> ELSE Digits(n \div 10) \o <<DigitChar(n % 10)>>

\* String(value)
ToStr(v) ==
  CASE v.t = "string" -> v.s
    [] v.t = "number" -> Digits(v.n)
    [] v.t = "boolean" ->
         IF v.b THEN <<"t", "r", "u", "e">> ELSE <<"f", "a", "l", "s", "e">>
    [] v.t = "null" -> <<"n", "u", "l", "l">>
    [] v.t = "undefined" -> <<"u", "n", "d", "e", "f", "i", "n", "e", "d">>
    [] v.t = "object" ->
         <<"[", "o", "b", "j", "e", "c", "t", " ", "O", "b", "j", "e", "c", "t", "]">>
    [] OTHER -> <<"f", "u", "n", "c", "t", "i", "o", "n">>

\* typeof value === 'object'
TypeofObject(v) == v.t \in {"object", "null", "array"}

\* one effect h has on the platform, with the property key it came from
Eff(op, key, name, val) == [op |-> op, key |-> key, name |-> name, val |-> val]

\* the element h creates
NewEl == 100

\* the ref rule left out
IsRefRuleNever(key, value) == FALSE

\* key === 'ref' && typeof value === 'function'
IsRefRule(key, value) == key = K_ref /\ value.t = "function"

\* key.startsWith('on') && typeof value === 'function'
IsEventRule(key, value) == StartsWithOn(key) /\ value.t = "function"

\* the event name keeping the case of the key
EventNameKeepCase(key) == Substring2(key)

\* key.substring(2).toLowerCase()
EventName(key) == ToLowerCase(Substring2(key))

\* key === 'className'
IsClassRule(key, value) == key = K_className

\* key === 'style' && typeof value === 'object'
IsStyleRule(key, value) == key = K_style /\ TypeofObject(value)

\* typeof value === 'boolean' && value
IsBooleanRule(key, value) == value.t = "boolean" /\ value.b

\* any value that is not null or undefined set as an attribute, functions too
IsPlainRuleFunctionsToo(key, value) == value.t \notin {"null", "undefined"}

\* value != null && typeof value !== 'function'
IsPlainRule(key, value) == value.t \notin {"null", "undefined"} /\ value.t # "function"

\* the if / else-if chain of h for one entry, every test tried in turn without
\* the else: an entry can match several rules
PropEffectNoElse(key, value) ==
  (IF IsRefRule(key, value) THEN <<Eff("ref", key, <<>>, Elem(NewEl))>> ELSE <<>>)
  \o (IF IsEventRule(key, value)
        THEN <<Eff("addEventListener", key, EventName(key), value)>> ELSE <<>>)
  \o (IF IsClassRule(key, value)
        THEN <<Eff("setAttribute", key, K_class, Str(ToStr(value)))>> ELSE <<>>)
  \o (IF IsStyleRule(key, value) THEN <<Eff("assignStyle", key, <<>>, value)>> ELSE <<>>)
  \o (IF IsBooleanRule(key, value)
        THEN <<Eff("setAttribute", key, key, Str(<<>>))>> ELSE <<>>)
  \o (IF IsPlainRule(key, value)
        THEN <<Eff("setAttribute", key, key, Str(ToStr(value)))>> ELSE <<>>)

\* the body of the for-in loop of h for one entry: the effects it has
PropEffect(key, value) ==
  IF IsRefRule(key, value) THEN <<Eff("ref", key, <<>>, Elem(NewEl))>>
  ELSE IF IsEventRule(key, value)
    THEN <<Eff("addEventListener", key, EventName(key), value)>>
  ELSE IF IsClassRule(key, value)
    THEN <<Eff("setAttribute", key, K_class, Str(ToStr(value)))>>
  ELSE IF IsStyleRule(key, value) THEN <<Eff("assignStyle", key, <<>>, value)>>
  ELSE IF IsBooleanRule(key, value) THEN <<Eff("setAttribute", key, key, Str(<<>>))>>
  ELSE IF IsPlainRule(key, value)
    THEN <<Eff("setAttribute", key, key, Str(ToStr(value)))>>
  ELSE <<>>

\* the for-in loop over the property bag, in key order
RECURSIVE PropEffects(_)
PropEffects(entries) ==
  IF entries = <<>> THEN <<>>
  ELSE PropEffect(entries[1].key, entries[1].val) \o PropEffects(Tail(entries))

\* Node.appendChild: the node becomes the last child; an element that is
\* already a child is moved, not duplicated (text nodes are always new)
RemoveNode(nodes, node) ==
  IF node.t = "element" THEN SelectSeq(nodes, LAMBDA x : x # node) ELSE nodes

DomAppend(nodes, node) == Append(RemoveNode(nodes, node), node)

\* the inner appendChild of h with the null test forgotten
appendChildNoNullTest(nodes, child) ==
  IF child.t = "element" THEN DomAppend(nodes, child)
  ELSE IF child.t # "undefined" THEN DomAppend(nodes, Text(ToStr(child)))
  ELSE nodes

\* the inner appendChild of h: a Node is appended, any other value that is not
\* null or undefined becomes a text node
appendChild(nodes, child) ==
  IF child.t = "element" THEN DomAppend(nodes, child)
  ELSE IF child.t # "null" /\ child.t # "undefined"
    THEN DomAppend(nodes, Text(ToStr(child)))
  ELSE nodes

RECURSIVE AppendAll(_, _)
AppendAll(nodes, items) ==
  IF items = <<>> THEN nodes
  ELSE AppendAll(appendChild(nodes, items[1]), Tail(items))

\* children.forEach: the items of an array child are appended one by one
RECURSIVE AppendChildren(_, _)
AppendChildren(nodes, kids) ==
  IF kids = <<>> THEN nodes
  ELSE AppendChildren(
         IF kids[1].t = "array" THEN AppendAll(nodes, kids[1].items)
         ELSE appendChild(nodes, kids[1]),
         Tail(kids))

\* the property bag: null, or its entries in key order
NullProps == [null |-> TRUE, entries |-> <<>>]
Props(entries) == [null |-> FALSE, entries |-> entries]

HasKey(entries, key) == \E i \in 1..Len(entries) : entries[i].key = key

\* { children, ...props }: a 'children' key of the bag wins
MergePropsWin(props, kids) ==
  IF HasKey(props.entries, K_children) THEN props.entries
  ELSE Append(props.entries, [key |-> K_children, val |-> Arr(kids)])

\* { ...props, children }
MergeChildren(props, kids) ==
  IF HasKey(props.entries, K_children)
    THEN [i \in 1..Len(props.entries) |->
            IF props.entries[i].key = K_children
              THEN [key |-> K_children, val |-> Arr(kids)]
              ELSE props.entries[i]]
    ELSE Append(props.entries, [key |-> K_children, val |-> Arr(kids)])

\* what a component returns for the object it is called with
ComponentReturn(tag, arg) == Elem(NewEl + tag.n + Len(arg))

\* the outcome of a call of h: the value returned, the effects h had, in order,
\* the objects h called a component with, and the child nodes of the element
NoOut == [kind |-> "none", ret |-> UndefV, log |-> <<>>, calls |-> <<>>, childNodes |-> <<>>]

\* h(tag, props, ...children)
h(tag, props, kids) ==
  IF tag.t = "function"
    THEN [kind |-> "component",
          ret |-> ComponentReturn(tag, MergeChildren(props, kids)),
          log |-> <<>>,
          calls |-> <<MergeChildren(props, kids)>>,
          childNodes |-> <<>>]
    ELSE [kind |-> "element",
          ret |-> Elem(NewEl),
          log |-> <<Eff("createElement", <<>>, tag.s, Elem(NewEl))>>
                    \o (IF props.null THEN <<>> ELSE PropEffects(props.entries)),
          calls |-> <<>>,
          childNodes |-> AppendChildren(<<>>, kids)]

\* ====================================================== debounce / throttle
\* The closure of one debounced (or throttled) function and the platform around
\* it, as a record: now is the clock, timers the timeouts the platform holds
\* (id, due time, callback), log what happened so far.  An absent value
\* (undefined) of timeoutId, lastArgs and result is 0; the arguments of a call
\* are a positive number, and a func that returns a value returns its argument.
DelayMs == 2
LimitMs == 2

\* Date.now() when the page starts: far from 0
StartTime == 10

Ev(ev, time, args) == [ev |-> ev, time |-> time, args |-> args]

\* setTimeout(callback, ms): the timer is held by the platform, its id returned
SetTimeout(d, kind, ms) ==
  [d EXCEPT !.timers = @ \cup {[id |-> d.nextId, due |-> d.now + ms, kind |-> kind]},
            !.timeoutId = d.nextId,
            !.nextId = @ + 1]

\* clearTimeout(id)
ClearTimeout(d, id) == [d EXCEPT !.timers = {t \in @ : t.id # id}]

\* func.apply(context, args): func runs now; its return value
Apply(d, args) == [d EXCEPT !.log = Append(@, Ev("invoke", d.now, args))]

FuncReturn(d, args) == IF d.returnsValue THEN args ELSE 0

\* throw new Error('No result available to return.')
Throw(d) == [d EXCEPT !.log = Append(@, Ev("throw", d.now, 0))]

\* later returning the result without the test for undefined
laterNoThrow(d, args) ==
  LET d1 == [d EXCEPT !.timeoutId = 0]
  IN IF ~d1.immediate
       THEN [Apply(d1, args) EXCEPT !.result = FuncReturn(d1, args), !.lastArgs = 0]
       ELSE d1

\* later(context, args) of debounce
later(d, args) ==
  LET d1 == [d EXCEPT !.timeoutId = 0]
      d2 == IF ~d1.immediate
              THEN [Apply(d1, args) EXCEPT !.result = FuncReturn(d1, args),
                                           !.lastArgs = 0]
              ELSE d1
  IN IF d2.result = 0 THEN Throw(d2) ELSE d2

\* debounced that leaves the timeout of the previous call in place
debouncedNoClear(d0, args) ==
  LET d == [d0 EXCEPT !.lastArgs = args, !.log = Append(@, Ev("call", d0.now, args))]
  IN IF d.immediate /\ d.timeoutId = 0
       THEN SetTimeout([Apply(d, d.lastArgs) EXCEPT !.result = FuncReturn(d, d.lastArgs)],
                       "cooldown", DelayMs)
       ELSE SetTimeout([d EXCEPT !.result = 0], "later", DelayMs)

\* debounced(...args)
debounced(d0, args) ==
  LET d == [d0 EXCEPT !.lastArgs = args, !.log = Append(@, Ev("call", d0.now, args))]
      d1 == IF d.timeoutId # 0 THEN ClearTimeout(d, d.timeoutId) ELSE d
  IN IF d1.immediate /\ d1.timeoutId = 0
       THEN SetTimeout([Apply(d1, d1.lastArgs) EXCEPT !.result = FuncReturn(d1, d1.lastArgs)],
                       "cooldown", DelayMs)
       ELSE SetTimeout([d1 EXCEPT !.result = 0], "later", DelayMs)

\* debounced.cancel()
debouncedCancel(d0) ==
  LET d == [d0 EXCEPT !.log = Append(@, Ev("cancel", d0.now, 0))]
      d1 == IF d.timeoutId # 0 THEN ClearTimeout(d, d.timeoutId) ELSE d
  IN [d1 EXCEPT !.timeoutId = 0, !.lastArgs = 0]

\* debounced.flush()
debouncedFlush(d0) ==
  LET d == [d0 EXCEPT !.log = Append(@, Ev("flush", d0.now, 0))] IN
  IF d.timeoutId # 0 /\ d.lastArgs # 0 THEN later(d, d.lastArgs) ELSE d

\* debounced.pending()
debouncedPending(d) == d.timeoutId # 0

\* a timeout of debounce runs: () => later(lastThis, lastArgs!) or the
\* callback of the immediate mode that only ends the delay window
debounceTimeout(d, t) ==
  LET d1 == [d EXCEPT !.timers = @ \ {t}] IN
  IF t.kind = "later" THEN later(d1, d1.lastArgs) ELSE [d1 EXCEPT !.timeoutId = 0]

\* invokeFunc without the time stamp
invokeFuncNoStamp(d, time, args) ==
  LET d1 == [Apply(d, args) EXCEPT !.result = FuncReturn(d, args)]
  IN IF d1.result = 0 THEN Throw(d1) ELSE d1

\* invokeFunc(time, context, args) of throttle
invokeFunc(d, time, args) ==
  LET d1 == [Apply([d EXCEPT !.lastCallTime = time], args)
               EXCEPT !.result = FuncReturn(d, args)]
  IN IF d1.result = 0 THEN Throw(d1) ELSE d1

\* trailingEdge(time) of throttle
trailingEdge(d, time) ==
  LET d1 == [d EXCEPT !.timeoutId = 0] IN
  IF d1.trailing /\ d1.lastArgs # 0 THEN invokeFunc(d1, time, d1.lastArgs)
  ELSE LET d2 == [d1 EXCEPT !.lastArgs = 0]
       IN IF d2.result = 0 THEN Throw(d2) ELSE d2

\* throttled(...args), limitMs > 0
throttled(d0, args) ==
  LET d == [d0 EXCEPT !.lastArgs = args, !.log = Append(@, Ev("call", d0.now, args))]
      d1 == IF d.lastCallTime = 0 /\ ~d.leading
              THEN [d EXCEPT !.lastCallTime = d.now] ELSE d
      remaining == LimitMs - (d1.now - d1.lastCallTime)
  IN IF remaining <= 0 \/ remaining > LimitMs
       THEN LET d2 == IF d1.timeoutId # 0
                        THEN [ClearTimeout(d1, d1.timeoutId) EXCEPT !.timeoutId = 0]
                        ELSE d1
            IN invokeFunc([d2 EXCEPT !.lastCallTime = d2.now], d2.now, d2.lastArgs)
       ELSE IF d1.timeoutId = 0 /\ d1.trailing
         THEN SetTimeout(d1, "trailingEdge", remaining)
       ELSE d1

\* throttled.cancel()
throttledCancel(d0) ==
  LET d == [d0 EXCEPT !.log = Append(@, Ev("cancel", d0.now, 0))]
      d1 == IF d.timeoutId # 0 THEN ClearTimeout(d, d.timeoutId) ELSE d
  IN [d1 EXCEPT !.timeoutId = 0, !.lastArgs = 0, !.lastCallTime = 0]

\* throttled.flush()
throttledFlush(d0) ==
  LET d == [d0 EXCEPT !.log = Append(@, Ev("flush", d0.now, 0))] IN
  IF d.timeoutId # 0 THEN trailingEdge(ClearTimeout(d, d.timeoutId), d.now)
  ELSE IF d.trailing /\ d.lastArgs # 0 THEN invokeFunc(d, d.now, d.lastArgs)
  ELSE d

\* the timeout of throttle runs: () => trailingEdge(Date.now())
throttleTimeout(d, t) == trailingEdge([d EXCEPT !.timers = @ \ {t}], d.now)

\* ================================================== retry / asyncParallel
\* One call of retry as a record: attempt is the loop variable, pc the await the
\* call is suspended at ("new" before the call, "fn", "onRetry", "delay") or how
\* its promise settled ("resolved", "rejected"), log the calls made so far.
\* Attempt k of fn fulfils with Value(k) or rejects with Err(k).
Value(k) == [kind |-> "value", of |-> k]
Err(k) == [kind |-> "error", of |-> k]
OnRetryErr(k) == [kind |-> "onRetryError", of |-> k]
NoResult == [kind |-> "none", of |-> 0]

Did(ev, n, val) == [ev |-> ev, n |-> n, val |-> val]

\* the head of the for loop: attempt <= retries, then fn() is called and
\* awaited; after the loop, throw lastError
retryLoop(r) ==
  IF r.attempt <= r.retries
    THEN [r EXCEPT !.pc = "fn", !.log = Append(@, Did("fn", r.attempt, NoResult))]
    ELSE [r EXCEPT !.pc = "rejected", !.result = r.lastError]

\* attempt++ and the head of the loop again
retryNext(r) == retryLoop([r EXCEPT !.attempt = @ + 1])

\* after onRetry: the delay, when there is one
retryDelay(r) == IF r.delayMs > 0 THEN [r EXCEPT !.pc = "delay"] ELSE retryNext(r)

\* the catch block that keeps the first error
retryCatchKeepsFirst(r, error) ==
  LET r1 == [r EXCEPT !.lastError = IF @ = NoResult THEN error ELSE @] IN
  IF r1.attempt < r1.retries
    THEN IF r1.onRetry # "none"
           THEN [r1 EXCEPT !.pc = "onRetry",
                           !.log = Append(@, Did("onRetry", r1.attempt + 1, error))]
           ELSE retryDelay(r1)
    ELSE retryNext(r1)

\* the catch block
retryCatch(r, error) ==
  LET r1 == [r EXCEPT !.lastError = error] IN
  IF r1.attempt < r1.retries
    THEN IF r1.onRetry # "none"
           THEN [r1 EXCEPT !.pc = "onRetry",
                           !.log = Append(@, Did("onRetry", r1.attempt + 1, error))]
           ELSE retryDelay(r1)
    ELSE retryNext(r1)

\* return await fn(): the promise of the attempt settles
retryFnSettled(r, fulfilled) ==
  IF fulfilled
    THEN [r EXCEPT !.pc = "resolved", !.result = Value(r.attempt),
                   !.log = Append(@, Did("fulfilled", r.attempt, Value(r.attempt)))]
    ELSE retryCatch([r EXCEPT !.log = Append(@, Did("rejected", r.attempt, Err(r.attempt)))],
                    Err(r.attempt))

\* await Promise.resolve(onRetry(error, attempt + 1)) settles: an error of
\* onRetry leaves the catch block and rejects the call
retryOnRetrySettled(r) ==
  IF r.onRetry = "throws"
    THEN [r EXCEPT !.pc = "rejected", !.result = OnRetryErr(r.attempt + 1)]
    ELSE retryDelay(r)

\* One call of asyncParallel as a record: queued are the indices whose runTask
\* waits in the microtask queue, running the tasks started and not settled,
\* starts the number of times each task was called, peak the largest number of
\* tasks in flight so far.
Min(a, b) == IF a < b THEN a ELSE b
Max(a, b) == IF a > b THEN a ELSE b

\* a limit that is not applied
ApLimitIgnored(n, concurrencyLimit) == Max(1, n)

\* Math.max(1, Math.min(tasks.length, concurrencyLimit))
ApLimit(n, concurrencyLimit) == Max(1, Min(n, concurrencyLimit))

\* startNext()
startNext(a) ==
  IF a.taskIndex < a.n
    THEN [a EXCEPT !.taskIndex = @ + 1, !.queued = @ \cup {a.taskIndex}]
    ELSE a

RECURSIVE StartNextTimes(_, _)
StartNextTimes(a, k) == IF k = 0 THEN a ELSE StartNextTimes(startNext(a), k - 1)

\* asyncParallel(tasks, concurrencyLimit) up to its return
asyncParallel(a) ==
  IF a.n = 0 THEN [a EXCEPT !.pc = "resolved"]
  ELSE StartNextTimes([a EXCEPT !.pc = "pending"], ApLimit(a.n, a.concurrencyLimit))

\* runTask(index): tasks[index]() is called
runTask(a, i) ==
  [a EXCEPT !.queued = @ \ {i}, !.running = @ \cup {i}, !.starts[i] = @ + 1,
            !.peak = Max(@, Cardinality(a.running \cup {i}))]

\* the then callback of runTask
taskFulfilled(a, i) ==
  LET a1 == [a EXCEPT !.running = @ \ {i}, !.done = @ \cup {i},
                      !.completedCount = @ + 1]
  IN IF a1.completedCount = a1.n
       THEN [a1 EXCEPT !.pc = IF @ = "pending" THEN "resolved" ELSE @]
       ELSE startNext(a1)

\* .catch(reject)
taskRejected(a, i) ==
  [a EXCEPT !.running = @ \ {i}, !.failed = @ \cup {i},
            !.pc = IF @ = "pending" THEN "rejected" ELSE @]

\* ================================================= one carousel by itself
\* The closure of one Carousel(props) with any number of items, and the
\* intervals the platform holds for it; counter is the text of the counter
\* element, a sequence of characters.
CounterText(index, n) == Digits(index + 1) \o <<" ", "/", " ">> \o Digits(n)

\* stopAutoplay
csStopAutoplay(c) ==
  IF c.autoplayInterval # 0 THEN [c EXCEPT !.timers = @ \ {c.autoplayInterval}] ELSE c

\* startAutoplay
csStartAutoplay(c) ==
  [csStopAutoplay(c) EXCEPT !.timers = @ \cup {c.nextTimer},
                            !.autoplayInterval = c.nextTimer,
                            !.nextTimer = @ + 1]

\* Carousel(props): an empty div for no items, else the element with the
\* counter reading 1 / n, and autoplay started
csCarousel(c) ==
  IF c.items = 0 THEN [c EXCEPT !.pc = "empty"]
  ELSE csStartAutoplay([c EXCEPT !.pc = "rendered", !.currentIndex = 0,
                                 !.counter = <<"1", " ", "/", " ">> \o Digits(c.items)])

\* nextSlide: goToSlide(currentIndex + 1)
csNextSlide(c) ==
  LET i == goToSlideOf(c.items, c.currentIndex + 1) IN
  [c EXCEPT !.currentIndex = i, !.counter = CounterText(i, c.items), !.ticks = @ + 1]

\* -------------------------------------------------------------------- state
VARIABLES
  fragment,      \* fragment of the document's URL: Null (no '#') or a string
  queue,         \* events queued on the event loop, oldest first
  listeners,     \* registered event listeners
  mainDone,      \* the entry point main.ts has been evaluated
  domFired,      \* DOMContentLoaded has been fired
  yearText,      \* text of the #year element
  root,          \* whether an element with id 'app-root' exists
  children,      \* child nodes of #app-root, in order
  nav,           \* class list of every '.nav-link' anchor
  timers,        \* live intervals: id and the carousel whose nextSlide they call
  carousels,     \* closure state of every Carousel rendered so far
  nextNode,      \* identity of the next element a page factory creates
  nextTimer,     \* next id window.setInterval returns
  errors,        \* number of console.error calls
  outcome,       \* how the last handleRouteChange ended
  made,          \* node the page factory returned in the last handleRouteChange
  factoryCalls,  \* number of page factory invocations
  before,        \* the document as the last handleRouteChange found it
  lastHash,      \* location.hash the last handleRouteChange read
  handlerRuns,   \* number of handleRouteChange invocations
  hashEvents,    \* number of hashchange events dispatched
  navs,          \* number of fragment changes
  mouseEvents,   \* number of mouse events delivered to a carousel
  hs,            \* a call of h: its arguments and, once made, its outcome
  db,            \* a debounced function: its closure, the clock and the timeouts
  th,            \* a throttled function: its closure, the clock and the timeouts
  rt,            \* a call of retry
  ap,            \* a call of asyncParallel
  cs             \* one carousel with any number of items

docVars ==
  <<root, children, nav, timers, carousels, nextNode, nextTimer, errors, outcome,
    made, factoryCalls>>

histVars == <<before, lastHash, handlerRuns>>

routerVars ==
  <<fragment, queue, listeners, mainDone, domFired, yearText, docVars, histVars,
    hashEvents, navs, mouseEvents>>

\* the state of the library functions, which the router does not touch
asyncVars == <<rt, ap>>

libVars == <<hs, db, th, asyncVars, cs>>

vars == <<routerVars, libVars>>

\* no call of h made
HIdle ==
  [phase |-> "idle", tag |-> Str(<<"d", "i", "v">>), props |-> NullProps, kids |-> <<>>,
   out |-> NoOut]

\* debounce(func, DelayMs) just returned
DbIdle ==
  [immediate |-> FALSE, returnsValue |-> TRUE, now |-> 0, timeoutId |-> 0,
   lastArgs |-> 0, result |-> 0, timers |-> {}, nextId |-> 1, log |-> <<>>]

\* throttle(func, LimitMs) just returned
ThIdle ==
  [leading |-> TRUE, trailing |-> TRUE, returnsValue |-> TRUE, now |-> StartTime,
   timeoutId |-> 0, lastArgs |-> 0, lastCallTime |-> 0, result |-> 0, timers |-> {},
   nextId |-> 1, log |-> <<>>]

\* retry not yet called
RtIdle ==
  [retries |-> 0, delayMs |-> 0, onRetry |-> "none", attempt |-> 0, pc |-> "new",
   lastError |-> NoResult, result |-> NoResult, log |-> <<>>]

\* asyncParallel not yet called
ApIdle ==
  [n |-> 0, concurrencyLimit |-> 1, pc |-> "new", taskIndex |-> 0, completedCount |-> 0,
   queued |-> {}, running |-> {}, done |-> {}, failed |-> {},
   starts |-> [i \in 0..(MaxTasks - 1) |-> 0], peak |-> 0]

\* Carousel not yet called
CsIdle ==
  [items |-> 0, pc |-> "new", currentIndex |-> 0, counter |-> <<>>, autoplayInterval |-> 0,
   timers |-> {}, nextTimer |-> 1, ticks |-> 0, mouse |-> 0]

AsyncIdle == rt = RtIdle /\ ap = ApIdle /\ cs = CsIdle

LibIdle == hs = HIdle /\ db = DbIdle /\ th = ThIdle /\ AsyncIdle

\* the document as one record, as the operators above take it
Doc ==
  [root |-> root, children |-> children, nav |-> nav, timers |-> timers,
   carousels |-> carousels, nextNode |-> nextNode, nextTimer |-> nextTimer,
   errors |-> errors, outcome |-> outcome, made |-> made,
   factoryCalls |-> factoryCalls]

SetDoc(d) ==
  /\ root' = d.root
  /\ children' = d.children
  /\ nav' = d.nav
  /\ timers' = d.timers
  /\ carousels' = d.carousels
  /\ nextNode' = d.nextNode
  /\ nextTimer' = d.nextTimer
  /\ errors' = d.errors
  /\ outcome' = d.outcome
  /\ made' = d.made
  /\ factoryCalls' = d.factoryCalls

\* fragments a user can navigate to
Fragments ==
  {Null, <<>>, P_root, P_about, P_contact, P_news, P_gallery, P_unknown,
   P_bareNews, P_constructor, P_toString, P_proto}

\* content of #app-root in index.html
StaticNode == [id |-> 0, page |-> "static"]

Init ==
  /\ fragment \in Fragments
  /\ queue = <<>>
  /\ listeners = {}
  /\ mainDone = FALSE
  /\ domFired = FALSE
  /\ yearText = "unset"
  /\ root \in BOOLEAN
  /\ children \in {<<>>, <<StaticNode>>}
  /\ nav \in InitialNavClasses
  /\ timers = {}
  /\ carousels = <<>>
  /\ nextNode = 1
  /\ nextTimer = 1
  /\ errors = 0
  /\ outcome = "none"
  /\ made = NoNode
  /\ factoryCalls = 0
  /\ before = Doc @@ [lastHash |-> <<>>]
  /\ lastHash = <<>>
  /\ handlerRuns = 0
  /\ hashEvents = 0
  /\ navs = 0
  /\ mouseEvents = 0
  /\ LibIdle

\* ------------------------------------------------------------------ actions
\* main.ts: registers its DOMContentLoaded listener and nothing else
Main ==
  /\ ~mainDone
  /\ mainDone' = TRUE
  /\ listeners' = listeners \cup {[event |-> "DOMContentLoaded", handler |-> "setYear"]}
  /\ UNCHANGED <<fragment, queue, domFired, yearText, docVars, histVars, hashEvents,
                 navs, mouseEvents>>
  /\ UNCHANGED libVars

\* initializeRouter(): the same function for both events
initializeRouter ==
  /\ [event |-> "hashchange", handler |-> "handleRouteChange"] \notin listeners
  /\ listeners' = listeners \cup
       {[event |-> "hashchange", handler |-> "handleRouteChange"],
        [event |-> "DOMContentLoaded", handler |-> "handleRouteChange"]}
  /\ UNCHANGED <<fragment, queue, mainDone, domFired, yearText, docVars, histVars,
                 hashEvents, navs, mouseEvents>>
  /\ UNCHANGED libVars

\* the browser fires DOMContentLoaded once, after the scripts have run
FireDOMContentLoaded ==
  /\ mainDone
  /\ ~domFired
  /\ domFired' = TRUE
  /\ queue' = Append(queue, "DOMContentLoaded")
  /\ UNCHANGED <<fragment, listeners, mainDone, yearText, docVars, histVars,
                 hashEvents, navs, mouseEvents>>
  /\ UNCHANGED libVars

\* the user changes the fragment: a hashchange event is queued
SetFragment ==
  /\ navs < MaxNav
  /\ \E f \in Fragments \ {fragment} :
       /\ fragment' = f
       /\ queue' = Append(queue, "hashchange")
  /\ navs' = navs + 1
  /\ UNCHANGED <<listeners, mainDone, domFired, yearText, docVars, histVars,
                 hashEvents, mouseEvents>>
  /\ UNCHANGED libVars

Listening(ev, fn) == [event |-> ev, handler |-> fn] \in listeners

\* the event loop dispatches the oldest queued event to its listeners, each
\* running to completion
Dispatch ==
  /\ queue # <<>>
  /\ queue' = Tail(queue)
  /\ hashEvents' = IF Head(queue) = "hashchange" THEN hashEvents + 1 ELSE hashEvents
  /\ yearText' = IF Listening(Head(queue), "setYear") THEN "set" ELSE yearText
  /\ IF Listening(Head(queue), "handleRouteChange")
       THEN /\ SetDoc(handleRouteChange(Doc, LocationHash(fragment)))
            /\ before' = Doc @@ [lastHash |-> lastHash]
            /\ lastHash' = LocationHash(fragment)
            /\ handlerRuns' = handlerRuns + 1
       ELSE UNCHANGED <<docVars, histVars>>
  /\ UNCHANGED <<fragment, listeners, mainDone, domFired, navs, mouseEvents>>
  /\ UNCHANGED libVars

\* an autoplay interval fires: nextSlide of the carousel that started it
TimerTick ==
  /\ \E t \in timers : SetDoc(nextSlide(Doc, t.owner))
  /\ UNCHANGED <<fragment, queue, listeners, mainDone, domFired, yearText, histVars,
                 hashEvents, navs, mouseEvents>>
  /\ UNCHANGED libVars

\* the carousel of the home page now in the document
MountedCarousels ==
  {children[i].id : i \in {j \in 1..Len(children) : children[j].page = "HomePage"}}

\* onMouseEnter={stopAutoplay}
MouseEnter ==
  /\ mouseEvents < MaxMouse
  /\ \E c \in MountedCarousels : SetDoc(stopAutoplay(Doc, c))
  /\ mouseEvents' = mouseEvents + 1
  /\ UNCHANGED <<fragment, queue, listeners, mainDone, domFired, yearText, histVars,
                 hashEvents, navs>>
  /\ UNCHANGED libVars

\* onMouseLeave={startAutoplay}
MouseLeave ==
  /\ mouseEvents < MaxMouse
  /\ \E c \in MountedCarousels : SetDoc(startAutoplay(Doc, c))
  /\ mouseEvents' = mouseEvents + 1
  /\ UNCHANGED <<fragment, queue, listeners, mainDone, domFired, yearText, histVars,
                 hashEvents, navs>>
  /\ UNCHANGED libVars

Next ==
  \/ Main
  \/ initializeRouter
  \/ FireDOMContentLoaded
  \/ SetFragment
  \/ Dispatch
  \/ TimerTick
  \/ MouseEnter
  \/ MouseLeave

Spec == Init /\ [][Next]_vars

\* the application as built: webpack's entry is main.ts, which does not import
\* the router, so nothing calls initializeRouter
NextApp ==
  \/ Main
  \/ FireDOMContentLoaded
  \/ SetFragment
  \/ Dispatch

SpecApp == Init /\ [][NextApp]_vars


\* the router at rest, for the specifications of the library functions
RouterIdle ==
  /\ fragment = Null
  /\ queue = <<>>
  /\ listeners = {}
  /\ mainDone = FALSE
  /\ domFired = FALSE
  /\ yearText = "unset"
  /\ root = FALSE
  /\ children = <<>>
  /\ nav = [l \in NavLinks |-> {"nav-link"} \cup HoverClasses]
  /\ timers = {}
  /\ carousels = <<>>
  /\ nextNode = 1
  /\ nextTimer = 1
  /\ errors = 0
  /\ outcome = "none"
  /\ made = NoNode
  /\ factoryCalls = 0
  /\ before = Doc @@ [lastHash |-> <<>>]
  /\ lastHash = <<>>
  /\ handlerRuns = 0
  /\ hashEvents = 0
  /\ navs = 0
  /\ mouseEvents = 0

\* ---------------------------------------------------------- calls of h
\* sequences over S of length at most n
SeqsUpTo(S, n) == UNION {[1..k -> S] : k \in 0..n}

\* property-bag entries h is called with
PropEntries ==
  { [key |-> K_ref, val |-> Fn(1)], [key |-> K_ref, val |-> Str(<<"x">>)],
    [key |-> K_ref, val |-> NullV],
    [key |-> K_onClick, val |-> Fn(2)], [key |-> K_onMouseEnter, val |-> Fn(3)],
    [key |-> K_on, val |-> Fn(4)], [key |-> K_onClick, val |-> Str(<<"g", "o">>)],
    [key |-> K_onClick, val |-> Bool(TRUE)],
    [key |-> K_className, val |-> Str(<<"b", "o", "x">>)],
    [key |-> K_className, val |-> NullV],
    [key |-> K_class, val |-> Str(<<"r", "o", "w">>)],
    [key |-> K_style, val |-> Obj(5)], [key |-> K_style, val |-> NullV],
    [key |-> K_style, val |-> Str(<<"t", "o", "p", ":", "0">>)],
    [key |-> K_disabled, val |-> Bool(TRUE)], [key |-> K_disabled, val |-> Bool(FALSE)],
    [key |-> K_id, val |-> Str(<<"m">>)], [key |-> K_id, val |-> Str(<<>>)],
    [key |-> K_id, val |-> Num(42)], [key |-> K_id, val |-> NullV],
    [key |-> K_id, val |-> UndefV], [key |-> K_id, val |-> Fn(6)],
    [key |-> K_id, val |-> Obj(7)],
    [key |-> K_children, val |-> Str(<<"k">>)] }

DistinctKeys(entries) ==
  \A i, j \in 1..Len(entries) : entries[i].key = entries[j].key => i = j

\* property bags: null, or up to n entries with different keys, in any order
PropBags(n) ==
  {NullProps} \cup {Props(e) : e \in {x \in SeqsUpTo(PropEntries, n) : DistinctKeys(x)}}

\* children h is called with: elements, strings, numbers, null, undefined and
\* arrays of those
ChildItems ==
  { Elem(1), Elem(2), Str(<<"a">>), Str(<<>>), Num(0), Num(7), NullV, UndefV,
    Arr(<<>>), Arr(<<Elem(1), NullV>>), Arr(<<Str(<<"a">>), Num(7)>>),
    Arr(<<Elem(2), UndefV, Elem(1)>>) }

\* tags: a native element name, a component
Tags == {Str(<<"d", "i", "v">>), Fn(9)}

\* the calls of h examined: every property bag with a few children lists, and
\* every children list with a few property bags
HInputs ==
  { [phase |-> "input", tag |-> t, props |-> pk[1], kids |-> pk[2], out |-> NoOut] :
      t \in Tags,
      pk \in (PropBags(MaxProps) \X {<<>>, <<Str(<<"a">>)>>})
               \cup ({NullProps, Props(<<[key |-> K_children, val |-> Str(<<"k">>)]>>)}
                       \X SeqsUpTo(ChildItems, MaxChildren)) }

InitH == RouterIdle /\ hs \in HInputs /\ db = DbIdle /\ th = ThIdle /\ AsyncIdle

\* the call h(tag, props, ...children) is made and returns
CallH ==
  /\ hs.phase = "input"
  /\ hs' = [hs EXCEPT !.phase = "built", !.out = h(hs.tag, hs.props, hs.kids)]
  /\ UNCHANGED <<routerVars, db, th, asyncVars, cs>>

NextH == CallH

SpecH == InitH /\ [][NextH]_vars

\* ------------------------------------------------------- debounce in use
\* calls, flushes and cancels made so far
Ops(d) == Len(SelectSeq(d.log, LAMBDA e : e.ev \in {"call", "flush", "cancel"}))

\* arguments of the next call: every call is given arguments of its own
NextArgs(d) == Len(SelectSeq(d.log, LAMBDA e : e.ev = "call")) + 1

InitDebounce ==
  /\ RouterIdle
  /\ AsyncIdle
  /\ hs = HIdle
  /\ th = ThIdle
  /\ db \in {[DbIdle EXCEPT !.immediate = i, !.returnsValue = r] : i, r \in BOOLEAN}

DebounceCall ==
  /\ Ops(db) < MaxOps
  /\ db' = debounced(db, NextArgs(db))
  /\ UNCHANGED <<routerVars, hs, th, asyncVars, cs>>

DebounceCancel ==
  /\ Ops(db) < MaxOps
  /\ db' = debouncedCancel(db)
  /\ UNCHANGED <<routerVars, hs, th, asyncVars, cs>>

DebounceFlush ==
  /\ Ops(db) < MaxOps
  /\ db' = debouncedFlush(db)
  /\ UNCHANGED <<routerVars, hs, th, asyncVars, cs>>

\* a timeout whose delay has elapsed runs, on time or late
DebounceTimeout ==
  /\ \E t \in db.timers : t.due <= db.now /\ db' = debounceTimeout(db, t)
  /\ UNCHANGED <<routerVars, hs, th, asyncVars, cs>>

\* a millisecond passes
DebounceTick ==
  /\ db.now < MaxTime
  /\ db' = [db EXCEPT !.now = @ + 1]
  /\ UNCHANGED <<routerVars, hs, th, asyncVars, cs>>

NextDebounce ==
  \/ DebounceCall
  \/ DebounceCancel
  \/ DebounceFlush
  \/ DebounceTimeout
  \/ DebounceTick

SpecDebounce == InitDebounce /\ [][NextDebounce]_vars

\* ------------------------------------------------------- throttle in use
InitThrottle ==
  /\ RouterIdle
  /\ AsyncIdle
  /\ hs = HIdle
  /\ db = DbIdle
  /\ th \in {[ThIdle EXCEPT !.leading = l, !.trailing = t, !.returnsValue = r] :
               l, t, r \in BOOLEAN}

ThrottleCall ==
  /\ Ops(th) < MaxOps
  /\ th' = throttled(th, NextArgs(th))
  /\ UNCHANGED <<routerVars, hs, db, asyncVars, cs>>

ThrottleCancel ==
  /\ Ops(th) < MaxOps
  /\ th' = throttledCancel(th)
  /\ UNCHANGED <<routerVars, hs, db, asyncVars, cs>>

ThrottleFlush ==
  /\ Ops(th) < MaxOps
  /\ th' = throttledFlush(th)
  /\ UNCHANGED <<routerVars, hs, db, asyncVars, cs>>

ThrottleTimeout ==
  /\ \E t \in th.timers : t.due <= th.now /\ th' = throttleTimeout(th, t)
  /\ UNCHANGED <<routerVars, hs, db, asyncVars, cs>>

ThrottleTick ==
  /\ th.now < StartTime + MaxTime
  /\ th' = [th EXCEPT !.now = @ + 1]
  /\ UNCHANGED <<routerVars, hs, db, asyncVars, cs>>

NextThrottle ==
  \/ ThrottleCall
  \/ ThrottleCancel
  \/ ThrottleFlush
  \/ ThrottleTimeout
  \/ ThrottleTick

SpecThrottle == InitThrottle /\ [][NextThrottle]_vars

\* ------------------------------------- either wrapper in use, not both
\* the other wrapper is as it was made, with the default options
DbUnused == db = DbIdle
ThUnused == th = ThIdle

InitWrappers == InitDebounce \/ InitThrottle

NextWrappers ==
  \/ ThUnused /\ NextDebounce
  \/ DbUnused /\ NextThrottle

SpecWrappers == InitWrappers /\ [][NextWrappers]_vars

\* ---------------------------------------------------------- retry in use
InitRetry ==
  /\ RouterIdle
  /\ hs = HIdle
  /\ db = DbIdle
  /\ th = ThIdle
  /\ ap = ApIdle
  /\ cs = CsIdle
  /\ rt \in {[RtIdle EXCEPT !.retries = n, !.delayMs = d, !.onRetry = o] :
               n \in 0..MaxRetries, d \in {0, DelayMs}, o \in {"none", "returns", "throws"}}

\* retry(fn, retries, delayMs, onRetry) is called: the first attempt starts
RetryCall ==
  /\ rt.pc = "new"
  /\ rt' = retryLoop(rt)
  /\ UNCHANGED <<routerVars, hs, db, th, ap, cs>>

\* the promise fn returned settles
RetryFnSettles ==
  /\ rt.pc = "fn"
  /\ \E fulfilled \in BOOLEAN : rt' = retryFnSettled(rt, fulfilled)
  /\ UNCHANGED <<routerVars, hs, db, th, ap, cs>>

\* what onRetry returned settles
RetryOnRetrySettles ==
  /\ rt.pc = "onRetry"
  /\ rt' = retryOnRetrySettled(rt)
  /\ UNCHANGED <<routerVars, hs, db, th, ap, cs>>

\* delay(delayMs) resolves
RetryDelayElapses ==
  /\ rt.pc = "delay"
  /\ rt' = retryNext(rt)
  /\ UNCHANGED <<routerVars, hs, db, th, ap, cs>>

NextRetry ==
  \/ RetryCall
  \/ RetryFnSettles
  \/ RetryOnRetrySettles
  \/ RetryDelayElapses

SpecRetry == InitRetry /\ [][NextRetry]_vars

\* -------------------------------------------------- asyncParallel in use
InitParallel ==
  /\ RouterIdle
  /\ hs = HIdle
  /\ db = DbIdle
  /\ th = ThIdle
  /\ rt = RtIdle
  /\ cs = CsIdle
  /\ ap \in {[ApIdle EXCEPT !.n = n, !.concurrencyLimit = c] :
               n \in 0..MaxTasks, c \in 0..(MaxTasks + 1)}

\* asyncParallel(tasks, concurrencyLimit) is called
ParallelCall ==
  /\ ap.pc = "new"
  /\ ap' = asyncParallel(ap)
  /\ UNCHANGED <<routerVars, hs, db, th, rt, cs>>

\* a microtask queued by startNext runs
ParallelRunTask ==
  /\ \E i \in ap.queued : ap' = runTask(ap, i)
  /\ UNCHANGED <<routerVars, hs, db, th, rt, cs>>

\* the promise of a running task fulfils
ParallelTaskFulfils ==
  /\ \E i \in ap.running : ap' = taskFulfilled(ap, i)
  /\ UNCHANGED <<routerVars, hs, db, th, rt, cs>>

\* the promise of a running task rejects
ParallelTaskRejects ==
  /\ \E i \in ap.running : ap' = taskRejected(ap, i)
  /\ UNCHANGED <<routerVars, hs, db, th, rt, cs>>

NextParallel ==
  \/ ParallelCall
  \/ ParallelRunTask
  \/ ParallelTaskFulfils
  \/ ParallelTaskRejects

SpecParallel == InitParallel /\ [][NextParallel]_vars

\* ------------------------------------------------- one carousel in use
InitCarousel ==
  /\ RouterIdle
  /\ hs = HIdle
  /\ db = DbIdle
  /\ th = ThIdle
  /\ rt = RtIdle
  /\ ap = ApIdle
  /\ cs \in {[CsIdle EXCEPT !.items = n] : n \in 0..MaxItems}

\* the component is rendered
CarouselRender ==
  /\ cs.pc = "new"
  /\ cs' = csCarousel(cs)
  /\ UNCHANGED <<routerVars, hs, db, th, asyncVars>>

\* an interval the platform holds fires: nextSlide
CarouselTick ==
  /\ cs.ticks < MaxTicks
  /\ cs.timers # {}
  /\ cs' = csNextSlide(cs)
  /\ UNCHANGED <<routerVars, hs, db, th, asyncVars>>

\* onMouseEnter={stopAutoplay}
CarouselMouseEnter ==
  /\ cs.pc = "rendered"
  /\ cs.mouse < MaxMouse
  /\ cs' = [csStopAutoplay(cs) EXCEPT !.mouse = @ + 1]
  /\ UNCHANGED <<routerVars, hs, db, th, asyncVars>>

\* onMouseLeave={startAutoplay}
CarouselMouseLeave ==
  /\ cs.pc = "rendered"
  /\ cs.mouse < MaxMouse
  /\ cs' = [csStartAutoplay(cs) EXCEPT !.mouse = @ + 1]
  /\ UNCHANGED <<routerVars, hs, db, th, asyncVars>>

NextCarousel ==
  \/ CarouselRender
  \/ CarouselTick
  \/ CarouselMouseEnter
  \/ CarouselMouseLeave

SpecCarousel == InitCarousel /\ [][NextCarousel]_vars

\* ------------------------------------------------- vocabulary of the claims
\* position of the first '#' in s, 0 when there is none
FirstHash(s) ==
  IF \E i \in 1..Len(s) : s[i] = "#"
    THEN CHOOSE i \in 1..Len(s) : s[i] = "#" /\ \A j \in 1..(i - 1) : s[j] # "#"
    ELSE 0

\* the path a fragment-carrying string names: the text after its '#', and '/'
\* when that text is empty or there is no '#'
FragmentPath(s) ==
  IF s = Null \/ FirstHash(s) = 0 \/ FirstHash(s) = Len(s) THEN <<"/">>
  ELSE SubSeq(s, FirstHash(s) + 1, Len(s))

RouteKeys == {P_root, P_about, P_contact, P_news, P_gallery}

\* the page each path is to show: its own factory, NotFoundPage for the rest
PageOf(path) ==
  CASE path = P_root -> "HomePage"
    [] path = P_about -> "AboutPage"
    [] path = P_contact -> "ContactPage"
    [] path = P_news -> "NewsPage"
    [] path = P_gallery -> "GalleryPage"
    [] OTHER -> "NotFoundPage"

IsActive(l) == ActiveClasses \subseteq nav[l] /\ HoverClasses \cap nav[l] = {}
IsInactive(l) == HoverClasses \subseteq nav[l] /\ ActiveClasses \cap nav[l] = {}

\* a handleRouteChange has run while #app-root existed
RanWithRoot == handlerRuns > 0 /\ before.root

\* the nodes a sequence of children holds
Nodes(seq) == {seq[i] : i \in 1..Len(seq)}

\* C1: when the handler runs with the fragment '#<path>' of a route key and
\* #app-root exists, the container's only child is the node the path's factory
\* returned in this invocation, and nothing the container held before is left
C1_RouteMountsFactoryNode ==
  (RanWithRoot /\ \E p \in RouteKeys : lastHash = <<"#">> \o p) =>
    /\ outcome = "mounted"
    /\ children = <<made>>
    /\ made.page = PageOf(FragmentPath(lastHash))
    /\ made.id = before.nextNode
    /\ factoryCalls = before.factoryCalls + 1
    /\ Nodes(before.children) \cap Nodes(children) = {}

C1_Witness ==
  /\ RanWithRoot
  /\ lastHash = <<"#">> \o P_gallery
  /\ before.children # <<>>
  /\ children = <<made>>
  /\ made.page = "GalleryPage"

\* C2: for every path that is not a key of the route table the handler mounts
\* the NotFoundPage output as the container's sole child, without throwing
C2_UnknownPathMountsNotFound ==
  (RanWithRoot /\ FragmentPath(lastHash) \notin RouteKeys) =>
    /\ outcome = "mounted"
    /\ children = <<made>>
    /\ made.page = "NotFoundPage"

\* C3: the container never holds more than one page root, holds exactly one
\* child after a route change that completed, and a second navigation to the
\* same path puts a newly made node in place of the previous one
C3_SinglePageRoot ==
  /\ Cardinality({i \in 1..Len(children) : children[i].page \in PageFactories}) <= 1
  /\ (handlerRuns > 0 /\ outcome = "mounted") =>
       /\ Len(children) = 1
       /\ children[1] = made
       /\ made \notin Nodes(before.children)
       /\ factoryCalls = before.factoryCalls + 1

C3_Witness ==
  /\ handlerRuns > 1
  /\ outcome = "mounted"
  /\ before.outcome = "mounted"
  /\ Len(before.children) = 1
  /\ before.children[1].page = "NewsPage"
  /\ before.lastHash = lastHash
  /\ children = <<made>>
  /\ made.page = "NewsPage"
  /\ made.id # before.children[1].id


\* C4: when no element with id 'app-root' exists the handler logs one error and
\* returns: no page factory is invoked, no link's class list changes, nothing
\* else in the document changes and no exception leaves the handler
C4_MissingRootAborts ==
  (handlerRuns > 0 /\ ~before.root) =>
    /\ outcome = "noroot"
    /\ errors = before.errors + 1
    /\ factoryCalls = before.factoryCalls
    /\ made = NoNode
    /\ nav = before.nav
    /\ children = before.children
    /\ timers = before.timers
    /\ carousels = before.carousels
    /\ nextNode = before.nextNode

C4_Witness ==
  /\ handlerRuns = 2
  /\ ~before.root
  /\ errors = 2
  /\ lastHash = <<"#">> \o P_news
  /\ children = <<StaticNode>>

\* C5: after every completed route change every '.nav-link' anchor whose
\* target path (the text after the '#' of its href, '/' when empty) is the
\* current path carries the three active classes and no hover class, and every
\* other anchor carries both hover classes and no active class
C5_LinksFollowPath ==
  (handlerRuns > 0 /\ outcome = "mounted") =>
    \A l \in NavLinks :
      IF FragmentPath(NavLinkHref[l]) = FragmentPath(lastHash)
        THEN IsActive(l)
        ELSE IsInactive(l)

\* C6: once the entry point has run and DOMContentLoaded has been dispatched,
\* the page for the current fragment is mounted in #app-root, and every
\* hashchange dispatched since triggered one handler invocation
C6_EntryPointMountsPage ==
  (mainDone /\ domFired /\ queue = <<>> /\ root) =>
    /\ handlerRuns >= 1
    /\ handlerRuns <= 1 + hashEvents
    /\ Len(children) = 1
    /\ children[1].page = PageOf(FragmentPath(LocationHash(fragment)))

\* C7: with an empty fragment ('' or just '#') the handler uses the path '/':
\* it mounts the home page and highlights exactly the links whose target path
\* is '/'
C7_EmptyFragmentIsHome ==
  (RanWithRoot /\ lastHash = <<>>) =>
    /\ outcome = "mounted"
    /\ children = <<made>>
    /\ made.page = "HomePage"
    /\ \A l \in NavLinks : IsActive(l) <=> FragmentPath(NavLinkHref[l]) = <<"/">>

\* C8: handlers run one after another in delivery order, and once every
\* delivered navigation event has been handled the mounted page and the link
\* highlighting correspond to the current fragment
C8_SettledMatchesFragment ==
  (RanWithRoot /\ queue = <<>> /\ lastHash = LocationHash(fragment)) =>
    /\ Len(children) = 1
    /\ children[1].page = PageOf(FragmentPath(LocationHash(fragment)))
    /\ \A l \in NavLinks :
         IsActive(l) <=> FragmentPath(NavLinkHref[l]) = FragmentPath(LocationHash(fragment))

\* C9: navigating away cancels no timer: with no mouse events, every home page
\* render so far has its autoplay interval alive, whichever page is mounted,
\* so k renders leave k live intervals
C9_IntervalsOutliveTheirPage ==
  mouseEvents = 0 =>
    /\ Cardinality(timers) = Cardinality(DOMAIN carousels)
    /\ \A c \in DOMAIN carousels :
         \E t \in timers : t.owner = c /\ t.id = carousels[c].autoplayInterval

C9_Witness ==
  /\ mouseEvents = 0
  /\ Cardinality(DOMAIN carousels) = 2
  /\ Cardinality(timers) = 2
  /\ children = <<made>>
  /\ made.page = "NewsPage"
  /\ \A c \in DOMAIN carousels : carousels[c].currentIndex = 1

\* the component the handler selected for the last hash throws when called
SelectedThrows ==
  Invoke(PageComponentFor(PathFromHash(lastHash)), ClearInnerHTML(before)).threw

\* C10: when the selected page factory throws, the exception leaves the
\* handler, no NotFound page or other content is put in the container and the
\* nav-link update does not happen
C10_FactoryThrowPropagates ==
  (RanWithRoot /\ SelectedThrows) =>
    /\ outcome = "threw"
    /\ children = <<>>
    /\ made = NoNode
    /\ nextNode = before.nextNode
    /\ nav = before.nav

C10_Witness ==
  /\ RanWithRoot
  /\ SelectedThrows
  /\ outcome = "threw"
  /\ before.outcome = "mounted"
  /\ before.lastHash = <<"#">> \o P_news
  /\ \E l \in NavLinks : IsActive(l)


\* C23: a run of the hashchange handler mounts the page of the fragment that is
\* current when it runs, whichever fragment caused the event: with two changes
\* of the fragment pending both runs mount the page of the second
C23_MountsPageOfCurrentFragment ==
  [][(handlerRuns' = handlerRuns + 1 /\ root /\ Head(queue) = "hashchange") =>
       /\ children' = <<made'>>
       /\ made'.page = PageOf(FragmentPath(LocationHash(fragment)))
       /\ factoryCalls' = factoryCalls + 1]_vars

\* C24: when the page factory or the append of its result throws, the container
\* has already been emptied: it has no children, the page shown before is
\* gone, and the nav links are as the previous route change left them
C24_ThrowLeavesContainerEmpty ==
  (RanWithRoot /\ outcome = "threw") =>
    /\ children = <<>>
    /\ nav = before.nav
    /\ factoryCalls = before.factoryCalls

C24_Witness ==
  /\ RanWithRoot
  /\ outcome = "threw"
  /\ lastHash = <<"#">> \o P_constructor
  /\ before.outcome = "mounted"
  /\ Len(before.children) = 1
  /\ before.children[1].page = "NewsPage"
  /\ children = <<>>
  /\ \E l \in NavLinks : IsActive(l)

\* ------------------------------------------------------------ claims on h
\* h has returned an element it built / the result of a component
BuiltElement == hs.phase = "built" /\ hs.tag.t = "string"
BuiltComponent == hs.phase = "built" /\ hs.tag.t = "function"

\* the entries of the property bag h was called with, none for null
Entries == hs.props.entries

\* the effects h had on account of the property named key, in order
EffectsFor(key) == SelectSeq(hs.out.log, LAMBDA e : e.key = key)

\* h called setAttribute with this attribute name
SetsAttribute(name) ==
  \E i \in 1..Len(hs.out.log) :
    hs.out.log[i].op = "setAttribute" /\ hs.out.log[i].name = name

\* C11: for a string tag an entry whose value is true makes the attribute of
\* that name present with the empty string as value, and an entry whose value
\* is false sets no attribute of that name
C11_BooleanAttribute ==
  BuiltElement =>
    \A i \in 1..Len(Entries) :
      Entries[i].val.t = "boolean" =>
        IF Entries[i].val.b
          THEN EffectsFor(Entries[i].key)
                 = <<Eff("setAttribute", Entries[i].key, Entries[i].key, Str(<<>>))>>
          ELSE ~SetsAttribute(Entries[i].key)

\* the children list with every array replaced by its items
RECURSIVE Flatten(_)
Flatten(kids) ==
  IF kids = <<>> THEN <<>>
  ELSE (IF kids[1].t = "array" THEN kids[1].items ELSE <<kids[1]>>) \o Flatten(Tail(kids))

\* null and undefined dropped
Kept(items) == SelectSeq(items, LAMBDA c : c.t \notin {"null", "undefined"})

\* an element stays the node it is, a string or number becomes a text node
AsNode(c) == IF c.t = "element" THEN c ELSE Text(ToStr(c))

\* flattened, filtered, in the original order, every item once
ExpectedChildNodes(kids) ==
  [i \in 1..Len(Kept(Flatten(kids))) |-> AsNode(Kept(Flatten(kids))[i])]

\* no element occurs twice in the flattened children list
NoElementTwice(kids) ==
  \A i, j \in 1..Len(Flatten(kids)) :
    (Flatten(kids)[i].t = "element" /\ Flatten(kids)[i] = Flatten(kids)[j]) => i = j

Pairs(entries) == {<<entries[i].key, entries[i].val>> : i \in 1..Len(entries)}

\* C13: for a function tag h calls the function exactly once with one object,
\* the property bag (none for null) with 'children' set to the unflattened
\* children list, returns what the call returned, and has no effect of its own
C13_ComponentDelegation ==
  BuiltComponent =>
    /\ Len(hs.out.calls) = 1
    /\ DistinctKeys(hs.out.calls[1])
    /\ Pairs(hs.out.calls[1])
         = {pr \in Pairs(Entries) : pr[1] # K_children} \cup {<<K_children, Arr(hs.kids)>>}
    /\ hs.out.ret = ComponentReturn(hs.tag, hs.out.calls[1])
    /\ hs.out.log = <<>>
    /\ hs.out.childNodes = <<>>

C13_Witness ==
  /\ BuiltComponent
  /\ hs.props = Props(<<[key |-> K_children, val |-> Str(<<"k">>)]>>)
  /\ hs.kids = <<Elem(1), Arr(<<Elem(2), UndefV, Elem(1)>>)>>
  /\ hs.out.calls = <<(<<[key |-> K_children, val |-> Arr(hs.kids)]>>)>>

\* one of the six rules applies to the entry
SomeRule(key, value) ==
  \/ key = K_ref /\ value.t = "function"
  \/ StartsWithOn(key) /\ value.t = "function"
  \/ key = K_className
  \/ key = K_style /\ value.t \in {"object", "null", "array"}
  \/ value = Bool(TRUE)
  \/ value.t \notin {"null", "undefined", "function"}

\* C14: for a string tag every entry has at most one effect, exactly one when a
\* rule applies to it, the effects come in the order of the keys, and h has no
\* effect besides creating the element
C14_OneRulePerEntry ==
  BuiltElement =>
    /\ \A i \in 1..Len(Entries) :
         /\ Len(EffectsFor(Entries[i].key)) <= 1
         /\ SomeRule(Entries[i].key, Entries[i].val) <=> Len(EffectsFor(Entries[i].key)) = 1
    /\ Tail(hs.out.log)
         = SelectSeq(Tail(hs.out.log), LAMBDA e : HasKey(Entries, e.key))
    /\ \A i, j \in 2..Len(hs.out.log) :
         i < j =>
           \E a, b \in 1..Len(Entries) :
             a < b /\ Entries[a].key = hs.out.log[i].key /\ Entries[b].key = hs.out.log[j].key

C14_Witness ==
  /\ BuiltElement
  /\ Entries = <<[key |-> K_className, val |-> Str(<<"b", "o", "x">>)],
                 [key |-> K_onClick, val |-> Fn(2)]>>
  /\ Len(hs.out.log) = 3
  /\ hs.out.log[2].op = "setAttribute"
  /\ hs.out.log[3].op = "addEventListener"

\* C15: for a string tag an entry whose key starts with 'on' and whose value is
\* a function registers the value as a listener, once, for the event named by
\* the key without its first two characters, lowercased, and sets no attribute
\* named by the key
C15_EventListener ==
  BuiltElement =>
    \A i \in 1..Len(Entries) :
      (StartsWithOn(Entries[i].key) /\ Entries[i].val.t = "function") =>
        /\ EffectsFor(Entries[i].key)
             = <<Eff("addEventListener", Entries[i].key,
                     ToLowerCase(SubSeq(Entries[i].key, 3, Len(Entries[i].key))),
                     Entries[i].val)>>
        /\ ~SetsAttribute(Entries[i].key)

C15_Witness ==
  /\ BuiltElement
  /\ HasKey(Entries, K_onMouseEnter)
  /\ EffectsFor(K_onMouseEnter)
       = <<Eff("addEventListener", K_onMouseEnter,
               <<"m", "o", "u", "s", "e", "e", "n", "t", "e", "r">>, Fn(3))>>

\* C16: for a string tag a 'ref' entry whose value is a function is called
\* once, within the call of h, with the element h returns, and no attribute
\* named 'ref' is set
C16_RefCallback ==
  BuiltElement =>
    \A i \in 1..Len(Entries) :
      (Entries[i].key = K_ref /\ Entries[i].val.t = "function") =>
        /\ EffectsFor(K_ref) = <<Eff("ref", K_ref, <<>>, hs.out.ret)>>
        /\ hs.out.ret = hs.out.log[1].val
        /\ hs.out.log[1].op = "createElement"
        /\ ~SetsAttribute(K_ref)

C16_Witness ==
  /\ BuiltElement
  /\ Entries = <<[key |-> K_id, val |-> Str(<<"m">>)], [key |-> K_ref, val |-> Fn(1)]>>
  /\ hs.out.log[3] = Eff("ref", K_ref, <<>>, hs.out.ret)

\* the entry is handled by the ref, event, class, style or boolean rule
HandledBeforePlain(key, value) ==
  \/ key = K_ref /\ value.t = "function"
  \/ StartsWithOn(key) /\ value.t = "function"
  \/ key = K_className
  \/ key = K_style /\ value.t \in {"object", "null", "array"}
  \/ value.t = "boolean"

\* C17: for a string tag an entry the ref, event, class, style and boolean
\* rules do not handle sets the attribute named by its key to String(value)
\* when the value is not null, undefined or a function, and sets no attribute
\* when it is
C17_PlainAttribute ==
  BuiltElement =>
    \A i \in 1..Len(Entries) :
      ~HandledBeforePlain(Entries[i].key, Entries[i].val) =>
        IF Entries[i].val.t \in {"null", "undefined", "function"}
          THEN ~SetsAttribute(Entries[i].key) /\ EffectsFor(Entries[i].key) = <<>>
          ELSE EffectsFor(Entries[i].key)
                 = <<Eff("setAttribute", Entries[i].key, Entries[i].key,
                         Str(ToStr(Entries[i].val)))>>

C17_Witness ==
  /\ BuiltElement
  /\ Entries = <<[key |-> K_id, val |-> Num(42)], [key |-> K_style, val |-> Str(<<"t", "o", "p", ":", "0">>)]>>
  /\ hs.out.log[2] = Eff("setAttribute", K_id, K_id, Str(<<"4", "2">>))
  /\ hs.out.log[3] = Eff("setAttribute", K_style, K_style, Str(<<"t", "o", "p", ":", "0">>))

\* ------------------------------------------- claims on debounce and throttle
\* what happened to the debounced function, the errors thrown left out
DbOps == SelectSeq(db.log, LAMBDA e : e.ev # "throw")

\* trailing mode, and neither cancel nor flush has been called
PlainTrailing ==
  ~db.immediate /\ \A i \in 1..Len(db.log) : db.log[i].ev \notin {"cancel", "flush"}

\* func is invoked only for the call made last, with its arguments, and not
\* before DelayMs has elapsed since that call
InvokedForLastCall ==
  \A i \in 1..Len(DbOps) :
    DbOps[i].ev = "invoke" =>
      /\ i > 1
      /\ DbOps[i - 1].ev = "call"
      /\ DbOps[i].args = DbOps[i - 1].args
      /\ DbOps[i].time >= DbOps[i - 1].time + DelayMs

\* C18 as stated: in trailing mode func is invoked once for every burst of
\* calls less than DelayMs apart, with the arguments of the burst's last call
\* and not before DelayMs after it: a call that the next call follows DelayMs
\* or more later ended its burst, and func was invoked for it in between
C18_BurstInvokedOnce ==
  PlainTrailing =>
    /\ InvokedForLastCall
    /\ \A i \in 1..(Len(DbOps) - 1) :
         (DbOps[i].ev = "call" /\ DbOps[i + 1].ev = "call") =>
           DbOps[i + 1].time < DbOps[i].time + DelayMs

\* C18: in trailing mode, for a burst of calls each made before the timeout of
\* the previous call has run (as every call less than DelayMs after the
\* previous one is), func is invoked once, when the timeout of the last call
\* runs, not before DelayMs after that call and with its arguments; until then
\* exactly that one timeout is held, afterwards none
C18_BurstInvokedWhenTimeoutRuns ==
  PlainTrailing =>
    /\ InvokedForLastCall
    /\ \A i \in 1..(Len(DbOps) - 1) :
         (DbOps[i].ev = "call" /\ DbOps[i + 1].time < DbOps[i].time + DelayMs) =>
           DbOps[i + 1].ev = "call"
    /\ (DbOps # <<>> /\ DbOps[Len(DbOps)].ev = "call") =>
         /\ debouncedPending(db)
         /\ db.lastArgs = DbOps[Len(DbOps)].args
         /\ db.timers = {[id |-> db.timeoutId, kind |-> "later",
                          due |-> DbOps[Len(DbOps)].time + DelayMs]}
    /\ (DbOps # <<>> /\ DbOps[Len(DbOps)].ev = "invoke") =>
         ~debouncedPending(db) /\ db.timers = {}

C18_Witness ==
  /\ ~db.immediate
  /\ DbOps = <<Ev("call", 0, 1), Ev("call", 1, 2), Ev("invoke", DelayMs + 1, 2)>>

\* C19: flush() called in trailing mode while the invocation for a call is
\* pending invokes func at once with that call's arguments; afterwards
\* pending() is false and func is not invoked again unless called again
C19_FlushInvokesOnce ==
  ~db.immediate =>
    \A i \in 2..Len(db.log) :
      (db.log[i].ev = "flush" /\ db.log[i - 1].ev = "call") =>
        /\ Len(db.log) > i
        /\ db.log[i + 1] = Ev("invoke", db.log[i].time, db.log[i - 1].args)
        /\ \A j \in (i + 2)..Len(db.log) :
             db.log[j].ev = "invoke" => \E k \in (i + 2)..(j - 1) : db.log[k].ev = "call"
        /\ (\A j \in (i + 2)..Len(db.log) : db.log[j].ev # "call") => ~debouncedPending(db)

\* default options, and neither cancel nor flush has been called
PlainThrottle ==
  /\ th.leading
  /\ th.trailing
  /\ \A i \in 1..Len(th.log) : th.log[i].ev \notin {"cancel", "flush"}

\* C20: with default options and no cancel or flush, any two invocations of func
\* by the throttled function are at least LimitMs apart
C20_InvocationsLimitMsApart ==
  PlainThrottle =>
    \A i, j \in 1..Len(th.log) :
      (i < j /\ th.log[i].ev = "invoke" /\ th.log[j].ev = "invoke") =>
        th.log[j].time - th.log[i].time >= LimitMs

C20_Witness ==
  /\ PlainThrottle
  /\ SelectSeq(th.log, LAMBDA e : e.ev # "throw")
       = <<Ev("call", StartTime, 1), Ev("invoke", StartTime, 1),
           Ev("call", StartTime + 1, 2), Ev("invoke", StartTime + LimitMs + 1, 2),
           Ev("call", StartTime + LimitMs + 2, 3)>>

\* what one step adds to a log
NewEntries(old, new) == SubSeq(new, Len(old) + 1, Len(new))

\* the step invokes func
StepInvokes(old, new) ==
  \E i \in 1..Len(NewEntries(old, new)) : NewEntries(old, new)[i].ev = "invoke"

\* the step ends by raising 'No result available to return.' right after it
\* has invoked func
StepThrowsAfterInvoke(old, new) ==
  LET n == NewEntries(old, new) IN
  /\ Len(n) >= 2
  /\ n[Len(n) - 1].ev = "invoke"
  /\ n[Len(n)] = Ev("throw", n[Len(n) - 1].time, 0)

Attempts == SelectSeq(rt.log, LAMBDA e : e.ev = "fn")
Ended == SelectSeq(rt.log, LAMBDA e : e.ev \in {"fulfilled", "rejected"})

\* C21: retry calls fn at most retries + 1 times, an attempt only after the
\* previous one has rejected; it resolves with the value of the first attempt
\* that fulfils, after which no attempt is made, and when retries + 1 attempts
\* have rejected it rejects with the error of the last of them
C21_RetryAttempts ==
  /\ Len(Attempts) <= rt.retries + 1
  /\ \A i \in 1..Len(rt.log) :
       rt.log[i].ev = "fn" =>
         \A j \in 1..(i - 1) :
           rt.log[j].ev = "fn" =>
             \E k \in (j + 1)..(i - 1) :
               rt.log[k].ev = "rejected" /\ rt.log[k].n = rt.log[j].n
  /\ \A i \in 1..Len(rt.log) :
       rt.log[i].ev = "fulfilled" =>
         /\ i = Len(rt.log)
         /\ rt.pc = "resolved"
         /\ rt.result = rt.log[i].val
         /\ \A j \in 1..(i - 1) : rt.log[j].ev # "fulfilled"
  /\ rt.pc = "resolved" => rt.log[Len(rt.log)].ev = "fulfilled"
  /\ (Len(Ended) = rt.retries + 1 /\ Ended[Len(Ended)].ev = "rejected") =>
       /\ rt.pc = "rejected"
       /\ rt.result = Ended[Len(Ended)].val

C21_Witness ==
  /\ rt.retries = 2
  /\ rt.pc = "rejected"
  /\ Len(Attempts) = 3
  /\ rt.result = Err(2)

\* C22: with a limit of at least 1 no more than limit tasks are ever in flight,
\* no task is started twice, and when no task has rejected and none is in
\* flight or about to start, every task has been started exactly once
C22_ConcurrencyLimit ==
  (ap.pc # "new" /\ ap.concurrencyLimit >= 1) =>
    /\ Cardinality(ap.running) <= ap.concurrencyLimit
    /\ ap.peak <= ap.concurrencyLimit
    /\ \A i \in 0..(MaxTasks - 1) : ap.starts[i] <= 1
    /\ (ap.failed = {} /\ ap.running = {} /\ ap.queued = {}) =>
         /\ \A i \in 0..(ap.n - 1) : ap.starts[i] = 1
         /\ ap.pc = "resolved"

C22_Witness ==
  /\ ap.n = 3
  /\ ap.concurrencyLimit = 2
  /\ ap.peak = 2
  /\ ap.pc = "resolved"
  /\ \A i \in 0..2 : ap.starts[i] = 1

\* --------------------------------------------------- claims on the carousel
\* C26: for a carousel of N >= 1 items the current index is always within
\* 0..N-1, after k autoplay ticks it is k mod N, and the counter always reads
\* '<index + 1> / <N>'
C26_IndexWrapsAndCounterFollows ==
  cs.pc = "rendered" =>
    /\ cs.currentIndex \in 0..(cs.items - 1)
    /\ cs.currentIndex = cs.ticks % cs.items
    /\ cs.counter = Digits(cs.currentIndex + 1) \o <<" ", "/", " ">> \o Digits(cs.items)
    /\ Cardinality(cs.timers) <= 1

C26_Witness ==
  /\ cs.pc = "rendered"
  /\ cs.items = 2
  /\ cs.ticks = 3
  /\ cs.mouse = MaxMouse
  /\ cs.currentIndex = 1
  /\ cs.counter = <<"2", " ", "/", " ", "2">>

====
